---- MODULE Spec2Model ----
(***************************************************************************)
(* Model of caddy-pocketbase: the App lifecycle (src/app.go), the admin    *)
(* API dispatcher and the Caddyfile global-option parser                   *)
(* (src/caddyfile.go).                                                     *)
(*                                                                         *)
(* Three specifications share the variables:                               *)
(*   Spec / FairSpec  the App lifecycle: Provision, Start, the background  *)
(*                    serve task, Stop                                     *)
(*   AdminSpec        the admin API handlers over the superuser store      *)
(*   ParseSpec        parseGlobalOption over a token stream                *)
(***************************************************************************)
EXTENDS Integers, Sequences, FiniteSets, TLC

VARIABLES
    \* ---- App (src/app.go) ----
    Listen,      \* App.Listen
    DataDir,     \* App.DataDir
    ctx,         \* App.ctx: "unset" | "live" | "done"
    pb,          \* App.pb: "nil" | "bootstrapped" | "created" | "reset"
    pbServer,    \* App.pbServer: "nil" | "srv"
    errGroup,    \* App.errGroup: "nil" | "grp"
    provPc,      \* result of Provision: "none" | "ok" | "failed"
    startPc,     \* "none" | "returned"
    taskPc,      \* the goroutine of Start: "none" | "init" | "hooked" | "serving" | "exited"
    taskErr,     \* the error the goroutine returned (a sequence, <<>> is nil)
    inShutdown,  \* http.Server.inShutdown of the embedded server
    conns,       \* number of non-idle connections of the embedded server
    stopPc,      \* "idle" | "shutdown" | "wait" | "trigger" | "returned" | "panicked"
    err,         \* local variable err of Stop (a sequence, <<>> is nil)
    stopResult,  \* the value Stop returned
    steps,       \* the steps of Stop that have produced an outcome, with it
    \* ---- admin API (src/caddyfile.go) ----
    accounts,    \* records of the _superusers collection
    otps,        \* records of the _otps collection
    otpEnabled,  \* Collection().OTP.Enabled of _superusers
    nextId,      \* next fresh record id
    req,         \* the last admin request
    resp,        \* the response to it
    pre,         \* accounts and otps before the last request
    prevSame,    \* status of the request before, if it was the same request, else 0
    \* ---- parseGlobalOption (src/caddyfile.go) ----
    tokens,      \* the dispenser's tokens
    cursor,      \* Dispenser.cursor
    nesting,     \* Dispenser.nesting
    app,         \* the App being filled in
    parsePc,     \* "start" | "loop" | "done" | "error"
    parseErr     \* the error returned: <<kind, token>>

lifeVars == <<Listen, DataDir, ctx, pb, pbServer, errGroup, provPc, startPc,
              taskPc, taskErr, inShutdown, conns, stopPc, err, stopResult, steps>>
adminVars == <<accounts, otps, otpEnabled, nextId, req, resp, pre, prevSame>>
parseVars == <<tokens, cursor, nesting, app, parsePc, parseErr>>
vars == <<lifeVars, adminVars, parseVars>>

-----------------------------------------------------------------------------
(* Bounds *)
MaxConns == 2
MaxIds == 2
MaxLineLen == 3
MaxLines == 2

-----------------------------------------------------------------------------
(* Errors are sequences of error names; nil is the empty sequence. *)
Nil == <<>>

E(name) == <<name>>

\* errors.Join: nil when every argument is nil, otherwise an error that
\* wraps every non-nil argument, in order.
JoinDropsSecond(a, b) == IF a # Nil THEN a ELSE b

Join(a, b) == a \o b

Contains(e, name) == \E i \in 1..Len(e) : e[i] = name

-----------------------------------------------------------------------------
(* App lifecycle *)

LifeInit ==
    /\ Listen \in {"", "127.0.0.1:8090"}
    /\ DataDir \in {"", "/data/pb"}
    /\ ctx = "unset"
    /\ pb = "nil"
    /\ pbServer = "nil"
    /\ errGroup = "nil"
    /\ provPc = "none"
    /\ startPc = "none"
    /\ taskPc = "none"
    /\ taskErr = Nil
    /\ inShutdown = FALSE
    /\ conns = 0
    /\ stopPc = "idle"
    /\ err = Nil
    /\ stopResult = Nil
    /\ steps = << >>

\* The App when another part is run on its own.
LifeIdle ==
    /\ Listen = "" /\ DataDir = "" /\ ctx = "unset" /\ pb = "nil"
    /\ pbServer = "nil" /\ errGroup = "nil" /\ provPc = "none"
    /\ startPc = "none" /\ taskPc = "none" /\ taskErr = Nil
    /\ inShutdown = FALSE /\ conns = 0 /\ stopPc = "idle" /\ err = Nil
    /\ stopResult = Nil /\ steps = << >>

\* A nil dereference in Stop is an unrecovered panic: the process is gone.
Alive == stopPc # "panicked"

\* App.Provision. mkdirOk, listenOk, bootstrapOk are the outcomes of
\* os.MkdirAll, net.Listen and pb.Bootstrap.
Provision(mkdirOk, listenOk, bootstrapOk) ==
    /\ Alive
    /\ provPc = "none"
    /\ ctx' = "live"
    /\ LET dir == IF DataDir = "" THEN "storage/pb_data" ELSE DataDir
           mkdirFails == DataDir = "" /\ ~mkdirOk
           listenFails == ~mkdirFails /\ Listen = "" /\ ~listenOk
           created == ~mkdirFails /\ ~listenFails
       IN /\ DataDir' = dir
          /\ Listen' = IF ~mkdirFails /\ Listen = "" /\ listenOk
                          THEN "127.0.0.1:free" ELSE Listen
          /\ pb' = IF ~created THEN "nil"
                   ELSE IF bootstrapOk THEN "bootstrapped" ELSE "created"
          /\ provPc' = IF created /\ bootstrapOk THEN "ok" ELSE "failed"
    /\ UNCHANGED <<adminVars, parseVars>>
    /\ UNCHANGED <<pbServer, errGroup, startPc, taskPc, taskErr, inShutdown,
                   conns, stopPc, err, stopResult, steps>>

\* App.Start: a new errgroup, the goroutine is spawned, nil is returned
\* at once. The host starts an app once, after it provisioned it.
Start ==
    /\ Alive
    /\ provPc = "ok"
    /\ startPc = "none"
    /\ errGroup' = "grp"
    /\ taskPc' = "init"
    /\ startPc' = "returned"
    /\ UNCHANGED <<adminVars, parseVars>>
    /\ UNCHANGED <<Listen, DataDir, ctx, pb, pbServer, provPc, taskErr,
                   inShutdown, conns, stopPc, err, stopResult, steps>>

\* The goroutine: apis.Serve up to the OnServe hook. Serve either fails
\* before it triggers the hook, or triggers it and the hook bound by
\* Provision stores e.Server.
TaskFailEarly ==
    /\ Alive
    /\ taskPc = "init"
    /\ taskPc' = "exited"
    /\ taskErr' = E("errServeInit")
    /\ UNCHANGED <<adminVars, parseVars>>
    /\ UNCHANGED <<Listen, DataDir, ctx, pb, pbServer, errGroup, provPc,
                   startPc, inShutdown, conns, stopPc, err, stopResult, steps>>

OnServeHook ==
    /\ Alive
    /\ taskPc = "init"
    /\ pbServer' = "srv"
    /\ taskPc' = "hooked"
    /\ UNCHANGED <<adminVars, parseVars>>
    /\ UNCHANGED <<Listen, DataDir, ctx, pb, errGroup, provPc, startPc,
                   taskErr, inShutdown, conns, stopPc, err, stopResult, steps>>

\* e.Next(): the rest of the hook chain binds the listener on a.Listen.
TaskListen(ok) ==
    /\ Alive
    /\ taskPc = "hooked"
    /\ IF ok THEN /\ taskPc' = "serving"
                  /\ taskErr' = taskErr
             ELSE /\ taskPc' = "exited"
                  /\ taskErr' = E("errListen")
    /\ UNCHANGED <<adminVars, parseVars>>
    /\ UNCHANGED <<Listen, DataDir, ctx, pb, pbServer, errGroup, provPc,
                   startPc, inShutdown, conns, stopPc, err, stopResult, steps>>

\* Server.Serve returns: http.ErrServerClosed once the server is shutting
\* down (mapped to nil by apis.Serve), or another error at any time.
TaskServeReturn(failed) ==
    /\ Alive
    /\ taskPc = "serving"
    /\ failed \/ inShutdown
    /\ taskPc' = "exited"
    /\ taskErr' = IF failed THEN E("errServe") ELSE Nil
    /\ UNCHANGED <<adminVars, parseVars>>
    /\ UNCHANGED <<Listen, DataDir, ctx, pb, pbServer, errGroup, provPc,
                   startPc, inShutdown, conns, stopPc, err, stopResult, steps>>

\* Clients of the embedded server.
ConnOpen ==
    /\ Alive
    /\ taskPc = "serving"
    /\ ~inShutdown
    /\ conns < MaxConns
    /\ conns' = conns + 1
    /\ UNCHANGED <<adminVars, parseVars>>
    /\ UNCHANGED <<Listen, DataDir, ctx, pb, pbServer, errGroup, provPc,
                   startPc, taskPc, taskErr, inShutdown, stopPc, err,
                   stopResult, steps>>

ConnClose ==
    /\ Alive
    /\ conns > 0
    /\ conns' = conns - 1
    /\ UNCHANGED <<adminVars, parseVars>>
    /\ UNCHANGED <<Listen, DataDir, ctx, pb, pbServer, errGroup, provPc,
                   startPc, taskPc, taskErr, inShutdown, stopPc, err,
                   stopResult, steps>>

\* The host cancels the context it gave to Provision. The context has no
\* deadline; nothing in the module cancels it.
CtxCancel ==
    /\ Alive
    /\ ctx = "live"
    /\ ctx' = "done"
    /\ UNCHANGED <<adminVars, parseVars>>
    /\ UNCHANGED <<Listen, DataDir, pb, pbServer, errGroup, provPc, startPc,
                   taskPc, taskErr, inShutdown, conns, stopPc, err,
                   stopResult, steps>>

\* App.Stop, first statement: a.pbServer.Shutdown(a.ctx) is entered.
\* Shutdown on a nil *http.Server dereferences it. The read of a.pbServer
\* is not synchronised with the write of the OnServe hook: it sees nil or
\* the server according to which of StopCall and OnServeHook comes first.
StopCall ==
    /\ Alive
    /\ stopPc = "idle"
    /\ IF pbServer = "nil"
          THEN /\ stopPc' = "panicked"
               /\ inShutdown' = inShutdown
          ELSE /\ stopPc' = "shutdown"
               /\ inShutdown' = TRUE
    /\ UNCHANGED <<adminVars, parseVars>>
    /\ UNCHANGED <<Listen, DataDir, ctx, pb, pbServer, errGroup, provPc,
                   startPc, taskPc, taskErr, conns, err, stopResult, steps>>

\* Shutdown returns: the listener-close error (or nil) once no connection
\* is active, ctx.Err() when the context is done first.
ShutdownReturn(lnerr) ==
    /\ Alive
    /\ stopPc = "shutdown"
    /\ conns = 0 \/ ctx = "done"
    /\ LET e == IF conns = 0 THEN lnerr ELSE E("errCtxDone")
       IN /\ err' = e
          /\ steps' = Append(steps, <<"shutdown", e>>)
    /\ stopPc' = "wait"
    /\ UNCHANGED <<adminVars, parseVars>>
    /\ UNCHANGED <<Listen, DataDir, ctx, pb, pbServer, errGroup, provPc,
                   startPc, taskPc, taskErr, inShutdown, conns, stopResult>>

\* err = errors.Join(err, a.errGroup.Wait()): Wait returns when the
\* goroutine has returned, with its error.
WaitReturn ==
    /\ Alive
    /\ stopPc = "wait"
    /\ taskPc = "exited"
    /\ err' = Join(err, taskErr)
    /\ steps' = Append(steps, <<"wait", taskErr>>)
    /\ stopPc' = "trigger"
    /\ UNCHANGED <<adminVars, parseVars>>
    /\ UNCHANGED <<Listen, DataDir, ctx, pb, pbServer, errGroup, provPc,
                   startPc, taskPc, taskErr, inShutdown, conns, stopResult>>

\* return errors.Join(err, a.pb.OnTerminate().Trigger(...)): the final
\* handler resets the bootstrap state.
TriggerReturn(terr) ==
    /\ Alive
    /\ stopPc = "trigger"
    /\ stopResult' = Join(err, terr)
    /\ steps' = Append(steps, <<"trigger", terr>>)
    /\ pb' = IF terr = Nil THEN "reset" ELSE pb
    /\ stopPc' = "returned"
    /\ UNCHANGED <<adminVars, parseVars>>
    /\ UNCHANGED <<Listen, DataDir, ctx, pbServer, errGroup, provPc, startPc,
                   taskPc, taskErr, inShutdown, conns, err>>

TaskStep ==
    \/ TaskFailEarly
    \/ OnServeHook
    \/ \E ok \in BOOLEAN : TaskListen(ok)
    \/ TaskServeReturn(FALSE)

StopStep ==
    \/ StopCall
    \/ \E lnerr \in {Nil, E("errListenerClose")} : ShutdownReturn(lnerr)
    \/ WaitReturn
    \/ \E terr \in {Nil, E("errTerminate")} : TriggerReturn(terr)

LifeNext ==
    \/ \E m, l, b \in BOOLEAN : Provision(m, l, b)
    \/ Start
    \/ TaskStep
    \/ TaskServeReturn(TRUE)
    \/ ConnOpen
    \/ ConnClose
    \/ CtxCancel
    \/ StopStep

-----------------------------------------------------------------------------
(* Admin API: handleAPIEndpoints, handleSuperuser, handleSuperuserOTP *)

Methods == {"GET", "POST", "PUT", "PATCH", "DELETE"}

\* Sample email strings: well-formed ones, a malformed one, and "" for a
\* missing or empty email.
Emails == {"a@b.com", "c@d.com"}
BadEmails == {"not-an-email"}
EmailInputs == Emails \cup BadEmails \cup {""}

Passwords == {"", "secret123", "newpass456"}

\* Sample results of security.RandomStringWithAlphabet(OTP.Length, "1234567890").
OTPPasswords == {"12345678", "90909090"}

\* A request body: unintelligible JSON (an empty body included), or a
\* superuserRequest; a field that is absent decodes to "".
Malformed == [json |-> "malformed", email_address |-> "", password |-> ""]

Object(email, password) ==
    [json |-> "object", email_address |-> email, password |-> password]

Bodies ==
    {Malformed}
    \cup {Object(e, pw) : e \in Emails, pw \in Passwords}
    \cup {Object(e, "secret123") : e \in BadEmails \cup {""}}

\* r.URL.Path after strings.TrimPrefix(.., "/pocketbase/") and
\* strings.Split(.., "/").
Paths ==
    {<<"superuser">>, <<"users">>, <<"superuser", "otp">>}
    \cup {<<"superuser", e, "otp">> : e \in EmailInputs}
    \cup {<<"SuperUser", "a@b.com", "OTP">>, <<"superuser", "a@b.com", "reset">>}

\* strings.EqualFold on the sample segments.
Lower(s) ==
    CASE s = "SuperUser" -> "superuser"
      [] s = "OTP" -> "otp"
      [] OTHER -> s

EqualFold(s, t) == Lower(s) = Lower(t)

\* govalidator.IsEmail on the sample strings.
IsEmail(s) == s \in Emails

\* is.EmailFormat.Validate: a string rule, which accepts the empty string.
EmailFormatValidate(s) ==
    IF s = "" THEN Nil
    ELSE IF IsEmail(s) THEN Nil ELSE E("ErrEmail")

SuperusersCol == "_superusers"

NoPassword == <<"unset">>

\* Record.SetPassword keeps a hash that only the same password validates.
Hash(pw) == <<"hash", pw>>

ValidatePassword(rec, pw) == rec.password = Hash(pw)

\* core.NewRecord(superusersCol)
NewRecord(id) ==
    [id |-> id, collection |-> SuperusersCol, email |-> "", password |-> NoPassword]

SetEmail(rec, email) == [rec EXCEPT !.email = email]

SetPassword(rec, pw) == [rec EXCEPT !.password = Hash(pw)]

\* pb.FindAuthRecordByEmail(_superusers, email): the records found; none
\* is the error case.
FindAuthRecordByEmail(accts, email) == {a \in accts : a.email = email}

\* pb.Save of a superuser record: nil, or the error of the store. The
\* store validates the record (email required and well-formed, password
\* required, email unique) and may fail on its own (storeOk).
SaveErr(accts, rec, storeOk) ==
    IF \/ ~storeOk
       \/ rec.email = ""
       \/ ~IsEmail(rec.email)
       \/ rec.password \in {NoPassword, Hash("")}
       \/ \E a \in accts : a.id # rec.id /\ a.email = rec.email
    THEN E("errSave") ELSE Nil

Saved(accts, rec) == {a \in accts : a.id # rec.id} \cup {rec}

\* What a handler did: the status of the response and the store after it.
\* caddy.APIError{HTTPStatus: s} answers s, any other error answers 500, a
\* nil return answers what WriteHeader wrote, 200 if nothing was written.
Answer(status, accts, otpRecs, id) ==
    [status |-> status, accounts |-> accts, otps |-> otpRecs, nextId |-> id]

Unchanged(status) == Answer(status, accounts, otps, nextId)

\* PUT: the record to write, the one found or else a new one.
UpsertTargetAlwaysNew(found, fresh) == fresh

UpsertTarget(found, fresh) ==
    IF found = {} THEN fresh ELSE CHOOSE a \in found : TRUE

\* DELETE when FindAuthRecordByEmail returns an error: return nil.
DeleteAbsentIsNotFound == Unchanged(404)

DeleteAbsent == Unchanged(200)

handleSuperuser(method, body, storeOk) ==
    IF body.json = "malformed" THEN Unchanged(400)
    ELSE IF EmailFormatValidate(body.email_address) # Nil THEN Unchanged(400)
    ELSE
    LET email == body.email_address
        found == FindAuthRecordByEmail(accounts, email)
    IN CASE method = "POST" ->
              LET superuser == SetPassword(SetEmail(NewRecord(nextId), email),
                                           body.password)
              IN IF SaveErr(accounts, superuser, storeOk) # Nil
                    THEN Unchanged(500)
                    ELSE Answer(201, Saved(accounts, superuser), otps, nextId + 1)
         [] method = "DELETE" ->
              IF found = {} THEN DeleteAbsent
              ELSE LET superuser == CHOOSE a \in found : TRUE
                   IN IF ~storeOk THEN Unchanged(500)
                      ELSE Answer(200, accounts \ {superuser},
                                  {o \in otps : o.recordRef # superuser.id},
                                  nextId)
         [] method = "PUT" ->
              LET target == UpsertTarget(found, NewRecord(nextId))
                  superuser == SetPassword(SetEmail(target, email), body.password)
              IN IF SaveErr(accounts, superuser, storeOk) # Nil
                    THEN Unchanged(500)
                    ELSE Answer(200, Saved(accounts, superuser), otps,
                                IF target.id = nextId THEN nextId + 1 ELSE nextId)
         [] method = "PATCH" ->
              IF found = {} THEN Unchanged(500)
              ELSE LET superuser == SetPassword(CHOOSE a \in found : TRUE,
                                                body.password)
                   IN IF SaveErr(accounts, superuser, storeOk) # Nil
                         THEN Unchanged(500)
                         ELSE Answer(200, Saved(accounts, superuser), otps, nextId)
         [] OTHER -> Unchanged(405)

\* superuser.Collection().OTP.Enabled
OTPAllowedAlways(enabled) == TRUE

OTPAllowed(enabled) == enabled

\* core.NewOTP with SetCollectionRef, SetRecordRef, SetPassword.
NewOTP(id, superuser, pass) ==
    [id |-> id, collectionRef |-> superuser.collection,
     recordRef |-> superuser.id, password |-> pass]

handleSuperuserOTP(middle, method, storeOk, pass) ==
    IF method # "POST" THEN Unchanged(405)
    ELSE IF middle = "" \/ EmailFormatValidate(middle) # Nil THEN Unchanged(400)
    ELSE
    LET found == FindAuthRecordByEmail(accounts, middle)
    IN IF found = {} THEN Unchanged(404)
       ELSE LET superuser == CHOOSE a \in found : TRUE
            IN IF ~OTPAllowed(otpEnabled) THEN Unchanged(500)
               ELSE IF ~storeOk THEN Unchanged(500)
               ELSE Answer(200, accounts,
                           otps \cup {NewOTP(nextId, superuser, pass)},
                           nextId + 1)

IsSuperuserPath(parts) == Len(parts) = 1 /\ EqualFold(parts[1], "superuser")

IsOTPPath(parts) ==
    /\ Len(parts) = 3
    /\ EqualFold(parts[1], "superuser")
    /\ EqualFold(parts[3], "otp")

handleAPIEndpoints(method, parts, body, storeOk, pass) ==
    CASE IsSuperuserPath(parts) -> handleSuperuser(method, body, storeOk)
      [] IsOTPPath(parts) -> handleSuperuserOTP(parts[2], method, storeOk, pass)
      [] OTHER -> Unchanged(404)

AdminInit ==
    /\ accounts = {}
    /\ otps = {}
    /\ otpEnabled \in BOOLEAN
    /\ nextId = 1
    /\ req = [method |-> "GET", path |-> <<"users">>, body |-> Malformed,
              storeOk |-> TRUE]
    /\ resp = [status |-> 404]
    /\ pre = [accounts |-> {}, otps |-> {}, otpEnabled |-> otpEnabled]
    /\ prevSame = 0

\* One admin request, served to its response.
AdminRequest(method, parts, body, storeOk, pass) ==
    \E out \in {handleAPIEndpoints(method, parts, body, storeOk, pass)} :
    LET r == [method |-> method, path |-> parts, body |-> body,
              storeOk |-> storeOk]
    IN /\ out.nextId <= MaxIds + 1
       /\ req' = r
       /\ resp' = [status |-> out.status]
       /\ pre' = [accounts |-> accounts, otps |-> otps, otpEnabled |-> otpEnabled]
       /\ prevSame' = IF [r EXCEPT !.storeOk = TRUE] = [req EXCEPT !.storeOk = TRUE]
                         THEN resp.status ELSE 0
       /\ accounts' = out.accounts
       /\ otps' = out.otps
       /\ nextId' = out.nextId
       /\ UNCHANGED otpEnabled
       /\ UNCHANGED <<lifeVars, parseVars>>

\* The OTP setting of the _superusers collection is changed in the
\* embedded service's own dashboard.
SetOTPEnabled(enabled) ==
    /\ otpEnabled # enabled
    /\ otpEnabled' = enabled
    /\ prevSame' = 0
    /\ UNCHANGED <<accounts, otps, nextId, req, resp, pre>>
    /\ UNCHANGED <<lifeVars, parseVars>>

\* The inputs a request is tried with. A handler that does not read the
\* body, draw a password or write to the store is tried with one value of
\* what it ignores (two bodies on the OTP path, which ignores the body).
BodiesFor(parts) ==
    IF IsSuperuserPath(parts) THEN Bodies
    ELSE IF IsOTPPath(parts) THEN {Malformed, Object("a@b.com", "secret123")}
    ELSE {Malformed}

PassesFor(method, parts) ==
    IF IsOTPPath(parts) /\ method = "POST" THEN OTPPasswords ELSE {"12345678"}

StoreReached(method, parts, body, pass) ==
    \E out \in {handleAPIEndpoints(method, parts, body, TRUE, pass)} :
        out # Unchanged(out.status)

AdminNext ==
    \/ \E method \in Methods, parts \in Paths :
         \E body \in BodiesFor(parts), pass \in PassesFor(method, parts) :
            \E storeOk \in IF StoreReached(method, parts, body, pass)
                              THEN BOOLEAN ELSE {TRUE} :
                AdminRequest(method, parts, body, storeOk, pass)
    \/ \E enabled \in BOOLEAN : SetOTPEnabled(enabled)

-----------------------------------------------------------------------------
(* parseGlobalOption over the caddyfile.Dispenser of the option's segment *)

Words == {"data_dir", "listen", "origins", "a.example", "b.example"}

\* The lines a block body is made of: 1..MaxLineLen words each.
RECURSIVE SeqsUpTo(_, _)
SeqsUpTo(S, n) ==
    IF n = 0 THEN {<< >>}
    ELSE LET shorter == SeqsUpTo(S, n - 1)
         IN shorter \cup {Append(q, x) : q \in {r \in shorter : Len(r) = n - 1}, x \in S}

BodyLines(maxLen) == SeqsUpTo(Words, maxLen) \ {<< >>}

\* The block bodies: 0..maxLines lines.
Blocks(maxLines, maxLen) == SeqsUpTo(BodyLines(maxLen), maxLines)

Tok(text, line) == [text |-> text, line |-> line]

RECURSIVE TokensOfLines(_, _)
TokensOfLines(lines, first) ==
    IF lines = << >> THEN << >>
    ELSE [i \in 1..Len(Head(lines)) |-> Tok(Head(lines)[i], first)]
         \o TokensOfLines(Tail(lines), first + 1)

\* The segment of
\*     pocketbase {
\*         <line>
\*         ...
\*     }
Segment(lines) ==
    <<Tok("pocketbase", 1), Tok("{", 1)>>
    \o TokensOfLines(lines, 2)
    \o <<Tok("}", Len(lines) + 2)>>

\* A dispenser state: the cursor (0 is before the first token) and the
\* nesting; the last field is the boolean a method returned.
D(c, n, ok) == [cursor |-> c, nesting |-> n, ok |-> ok]

\* Dispenser.Val
Val(c) == IF c < 1 \/ c > Len(tokens) THEN "" ELSE tokens[c].text

\* Dispenser.Next
DNext(c, n) == IF c < Len(tokens) THEN D(c + 1, n, TRUE) ELSE D(c, n, FALSE)

\* Dispenser.nextOnSameLine
nextOnSameLine(c, n) ==
    IF c < 1 THEN D(c + 1, n, TRUE)
    ELSE IF c >= Len(tokens) THEN D(c, n, FALSE)
    ELSE IF tokens[c].line >= tokens[c + 1].line THEN D(c + 1, n, TRUE)
    ELSE D(c, n, FALSE)

\* Dispenser.NextArg
NextArg(c, n) ==
    LET s == nextOnSameLine(c, n)
    IN IF ~s.ok THEN D(c, n, FALSE)
       ELSE IF Val(s.cursor) = "{" THEN D(s.cursor - 1, n, FALSE)
       ELSE D(s.cursor, n, TRUE)

\* Dispenser.NextBlock(initialNestingLevel)
NextBlock(c, n, initial) ==
    IF n > initial
    THEN LET a == DNext(c, n)
         IN IF ~a.ok THEN D(c, n, FALSE)
            ELSE LET s == nextOnSameLine(a.cursor, n)
                 IN IF Val(a.cursor) = "}"
                       THEN IF ~s.ok THEN D(a.cursor, n - 1, n - 1 > initial)
                            ELSE D(s.cursor, n, n > initial)
                    ELSE IF Val(a.cursor) = "{"
                       THEN IF ~s.ok THEN D(a.cursor, n + 1, n + 1 > initial)
                            ELSE D(s.cursor, n, n > initial)
                    ELSE D(a.cursor, n, n > initial)
    ELSE LET s == nextOnSameLine(c, n)
         IN IF ~s.ok THEN D(c, n, FALSE)
            ELSE IF Val(s.cursor) # "{" THEN D(s.cursor - 1, n, FALSE)
            ELSE LET b == DNext(s.cursor, n)
                 IN IF Val(b.cursor) = "}" THEN D(b.cursor, n, FALSE)
                    ELSE D(b.cursor, n + 1, TRUE)

NewApp == [DataDir |-> "", Listen |-> "", Origins |-> << >>]

ParseInit ==
    /\ tokens \in {Segment(lines) : lines \in Blocks(MaxLines, MaxLineLen)}
                 \cup {<<Tok("pocketbase", 1)>>}
    /\ cursor = 0
    /\ nesting = 0
    /\ app = NewApp
    /\ parsePc = "start"
    /\ parseErr = << >>

\* app := new(App); d.Next()
ParseBegin ==
    /\ parsePc = "start"
    /\ cursor' = DNext(cursor, nesting).cursor
    /\ parsePc' = "loop"
    /\ UNCHANGED <<tokens, nesting, app, parseErr>>
    /\ UNCHANGED <<lifeVars, adminVars>>

\* case "origins": the value appended is d.Val(), the token the switch is on.
OriginsValue(c) == Val(c)

\* One pass of  for d.NextBlock(0) { switch d.Val() { ... } }
ParseKey ==
    /\ parsePc = "loop"
    /\ LET b == NextBlock(cursor, nesting, 0)
           arg == NextArg(b.cursor, b.nesting)
           key == Val(b.cursor)
       IN /\ b.ok
          /\ nesting' = b.nesting
          /\ \/ /\ key = "data_dir"
                /\ cursor' = arg.cursor
                /\ IF arg.ok
                      THEN /\ app' = [app EXCEPT !.DataDir = Val(arg.cursor)]
                           /\ UNCHANGED <<parsePc, parseErr>>
                      ELSE /\ parsePc' = "error"
                           /\ parseErr' = <<"ArgErr", key>>
                           /\ app' = app
             \/ /\ key = "listen"
                /\ cursor' = arg.cursor
                /\ IF arg.ok
                      THEN /\ app' = [app EXCEPT !.Listen = Val(arg.cursor)]
                           /\ UNCHANGED <<parsePc, parseErr>>
                      ELSE /\ parsePc' = "error"
                           /\ parseErr' = <<"ArgErr", key>>
                           /\ app' = app
             \/ /\ key = "origins"
                /\ cursor' = b.cursor
                /\ app' = [app EXCEPT
                             !.Origins = Append(@, OriginsValue(b.cursor))]
                /\ UNCHANGED <<parsePc, parseErr>>
             \/ /\ key \notin {"data_dir", "listen", "origins"}
                /\ cursor' = b.cursor
                /\ parsePc' = "error"
                /\ parseErr' = <<"unrecognized", key>>
                /\ app' = app
    /\ UNCHANGED tokens
    /\ UNCHANGED <<lifeVars, adminVars>>

\* d.NextBlock(0) returns false: the app is returned as its JSON.
ParseEnd ==
    /\ parsePc = "loop"
    /\ LET b == NextBlock(cursor, nesting, 0)
       IN /\ ~b.ok
          /\ cursor' = b.cursor
          /\ nesting' = b.nesting
    /\ parsePc' = "done"
    /\ UNCHANGED <<tokens, app, parseErr>>
    /\ UNCHANGED <<lifeVars, adminVars>>

ParseNext == ParseBegin \/ ParseKey \/ ParseEnd

-----------------------------------------------------------------------------
(* Values of the variables of the parts a specification does not run. *)
AdminIdle ==
    /\ accounts = {} /\ otps = {} /\ otpEnabled = FALSE /\ nextId = 1
    /\ req = << >> /\ resp = << >> /\ pre = << >> /\ prevSame = 0

ParseIdle ==
    /\ tokens = << >> /\ cursor = 0 /\ nesting = 0 /\ app = NewApp
    /\ parsePc = "start" /\ parseErr = << >>

-----------------------------------------------------------------------------
(* The App lifecycle *)
Init == LifeInit /\ AdminIdle /\ ParseIdle

Next == LifeNext

Spec == Init /\ [][Next]_vars

\* The goroutine of Start and the caller inside Stop are scheduled by the
\* Go runtime: a step that stays possible is taken. Clients closing their
\* connections (ConnClose) and the host cancelling the context (CtxCancel)
\* are under no such obligation.
FairSpec == Spec /\ WF_vars(TaskStep) /\ WF_vars(StopStep)

(* parseGlobalOption *)
ParseSpecInit == ParseInit /\ LifeIdle /\ AdminIdle

ParseSpec == ParseSpecInit /\ [][ParseNext]_vars

(* The admin API *)
AdminSpecInit == AdminInit /\ LifeIdle /\ ParseIdle

AdminSpec == AdminSpecInit /\ [][AdminNext]_vars

-----------------------------------------------------------------------------
(* Claims about the App lifecycle *)

StopDone == stopPc \in {"returned", "panicked"}

AllIn(e, result) == \A j \in 1..Len(e) : Contains(result, e[j])

\* C1 (as claimed): Stop on an App on which Start has not been invoked,
\* provisioned or not, returns a non-nil error to its caller: it neither
\* crashes nor returns nil.
C1_StopBeforeStartReturnsError ==
    (startPc = "none" /\ stopPc # "idle")
        => (stopPc = "returned" /\ stopResult # Nil)

\* C2: Stop never short-circuits. When Stop has returned, its three steps
\* (Shutdown, Wait, the termination hook) have each run, in that order,
\* whatever each returned; the returned error holds every error a step
\* produced, and is nil only if all three returned nil.
C2_StopAggregates ==
    stopPc = "returned" =>
        /\ Len(steps) = 3
        /\ steps[1][1] = "shutdown"
        /\ steps[2][1] = "wait"
        /\ steps[3][1] = "trigger"
        /\ \A i \in 1..3 : AllIn(steps[i][2], stopResult)
        /\ (stopResult = Nil <=> \A i \in 1..3 : steps[i][2] = Nil)

\* Stop has returned and each of its three steps had failed.
C2_Witness ==
    /\ stopPc = "returned"
    /\ Len(steps) = 3
    /\ \A i \in 1..3 : steps[i][2] # Nil
    /\ Len(stopResult) = 3

\* C9 (as claimed): whenever the goroutine of Start has ended with an
\* error, at whatever point, a Stop that has been called has returned, and
\* returned that error.
C9_TaskErrorReachesStop ==
    (StopDone /\ taskPc = "exited" /\ taskErr # Nil)
        => (stopPc = "returned" /\ AllIn(taskErr, stopResult))

\* C10 (as claimed): a Stop that has entered the graceful shutdown of the
\* running server eventually returns, also when the server never finishes
\* draining its connections.
C10_StopEventuallyReturns == (stopPc = "shutdown") ~> (stopPc = "returned")

-----------------------------------------------------------------------------
(* Claims about the admin API *)

OnSuperuser == IsSuperuserPath(req.path)

OnOTP == IsOTPPath(req.path)

AcceptsEmail ==
    \/ OnSuperuser /\ req.method \in {"POST", "PUT", "PATCH", "DELETE"}
    \/ OnOTP /\ req.method = "POST"

StoreUnchanged == accounts = pre.accounts /\ otps = pre.otps

\* C3 (as claimed): an unsupported method on /superuser or on
\* /superuser/{email}/otp is answered 405 whatever the body or the email
\* segment holds, and a path of neither shape is answered 404.
C3_UnsupportedMethodIs405 ==
    /\ (OnSuperuser /\ req.method \notin {"POST", "PUT", "PATCH", "DELETE"})
          => resp.status = 405
    /\ (OnOTP /\ req.method # "POST") => resp.status = 405
    /\ (~OnSuperuser /\ ~OnOTP) => resp.status = 404

\* C4 (as claimed): on every endpoint that accepts an email, a request
\* whose email is malformed or missing (absent or "") is answered 400 and
\* leaves the accounts and the OTP records unchanged.
C4_BadEmailIs400 ==
    /\ (OnSuperuser /\ AcceptsEmail /\ req.body.json = "object"
          /\ ~IsEmail(req.body.email_address))
          => (resp.status = 400 /\ StoreUnchanged)
    /\ (OnOTP /\ AcceptsEmail /\ ~IsEmail(req.path[2]))
          => (resp.status = 400 /\ StoreUnchanged)

\* C5: there is at most one account per email address; a PUT or PATCH for
\* an email that has an account writes that account (same record, no
\* second one) and does not fail as a duplicate; after a successful PUT or
\* PATCH the one account of that email validates the password of the
\* request.
C5_OneAccountPerEmail ==
    /\ \A a, b \in accounts : a.email = b.email => a = b
    /\ (OnSuperuser /\ req.method \in {"PUT", "PATCH"} /\ resp.status = 200) =>
          /\ \E a \in accounts :
                /\ a.email = req.body.email_address
                /\ ValidatePassword(a, req.body.password)
          /\ \A old \in pre.accounts :
                old.email = req.body.email_address =>
                   /\ \E a \in accounts : a.id = old.id /\ a.email = old.email
                   /\ Cardinality(accounts) = Cardinality(pre.accounts)
    /\ (OnSuperuser /\ req.method \in {"PUT", "PATCH"}
          /\ req.body.json = "object"
          /\ FindAuthRecordByEmail(pre.accounts, req.body.email_address) # {}
          /\ req.storeOk /\ req.body.password # "")
          => resp.status = 200

\* A PUT or PATCH has changed the password of an account that existed.
C5_Witness ==
    /\ OnSuperuser /\ req.method \in {"PUT", "PATCH"} /\ resp.status = 200
    /\ \E old \in pre.accounts :
          /\ old.email = req.body.email_address
          /\ ~ValidatePassword(old, req.body.password)
          /\ \E a \in accounts : a.id = old.id /\ ValidatePassword(a, req.body.password)

OTPPersisted == otps # pre.otps

OTPTied ==
    \E o \in otps, a \in pre.accounts :
        /\ otps = pre.otps \cup {o}
        /\ o \notin pre.otps
        /\ a.email = req.path[2]
        /\ o.recordRef = a.id
        /\ o.collectionRef = a.collection
        /\ accounts = pre.accounts

\* C6 (as claimed): POST /superuser/{email}/otp persists a new OTP record
\* exactly when the email is well-formed, an account has it and OTP is
\* enabled, and then the record is tied to the account and its collection
\* and the answer is 200; no account: 404 and no record; OTP disabled: an
\* error and no record.
C6_OTPExactlyWhen ==
    (OnOTP /\ req.method = "POST") =>
        LET email == req.path[2]
            found == FindAuthRecordByEmail(pre.accounts, email)
        IN /\ OTPPersisted <=> (IsEmail(email) /\ found # {} /\ pre.otpEnabled)
           /\ OTPPersisted => (OTPTied /\ resp.status = 200)
           /\ (IsEmail(email) /\ found = {}) => (resp.status = 404 /\ StoreUnchanged)
           /\ (IsEmail(email) /\ found # {} /\ ~pre.otpEnabled)
                 => (resp.status # 200 /\ StoreUnchanged)

\* C6 (amended): ... exactly when the email is well-formed, an account has
\* it, OTP is enabled and the store saves the record; if the save fails
\* the answer is an error and no record is persisted.
C6_OTPWhenSaved ==
    (OnOTP /\ req.method = "POST") =>
        LET email == req.path[2]
            found == FindAuthRecordByEmail(pre.accounts, email)
        IN /\ OTPPersisted <=>
                 (IsEmail(email) /\ found # {} /\ pre.otpEnabled /\ req.storeOk)
           /\ OTPPersisted => (OTPTied /\ resp.status = 200)
           /\ (IsEmail(email) /\ found = {}) => (resp.status = 404 /\ StoreUnchanged)
           /\ (IsEmail(email) /\ found # {} /\ ~pre.otpEnabled)
                 => (resp.status # 200 /\ StoreUnchanged)
           /\ (IsEmail(email) /\ found # {} /\ pre.otpEnabled /\ ~req.storeOk)
                 => (resp.status # 200 /\ StoreUnchanged)

\* An OTP record has been persisted for an account and answered 200.
C6_Witness ==
    /\ OnOTP /\ req.method = "POST" /\ resp.status = 200
    /\ OTPPersisted /\ OTPTied

IsDeleteOf(email) ==
    /\ OnSuperuser /\ req.method = "DELETE"
    /\ req.body.json = "object" /\ req.body.email_address = email

\* C8: a DELETE with a well-formed email that no account has is answered
\* 200 and changes nothing; so the second of two such DELETEs in a row
\* (the one before was answered 200, after which no account has the
\* email) is answered 200 and leaves the state as the first left it.
C8_DeleteIdempotent ==
    \A email \in Emails :
        IsDeleteOf(email) =>
            /\ FindAuthRecordByEmail(pre.accounts, email) = {}
                  => (resp.status = 200 /\ StoreUnchanged)
            /\ prevSame = 200
                  => (resp.status = 200 /\ StoreUnchanged
                      /\ FindAuthRecordByEmail(pre.accounts, email) = {})

\* The second of two equal DELETEs in a row has been answered 200, as the
\* first was, with no account of that email and nothing changed.
C8_Witness ==
    \E email \in Emails :
        /\ IsDeleteOf(email) /\ prevSame = 200 /\ resp.status = 200
        /\ FindAuthRecordByEmail(pre.accounts, email) = {}
        /\ StoreUnchanged
        /\ accounts # {}

-----------------------------------------------------------------------------
(* Claims about parseGlobalOption *)

Keys == {"data_dir", "listen", "origins"}

\* The words of line l of the segment.
LineWords(l) ==
    LET on == SelectSeq(tokens, LAMBDA t : t.line = l)
    IN [i \in 1..Len(on) |-> on[i].text]

NumLines == IF Len(tokens) < 3 THEN 0 ELSE tokens[Len(tokens)].line - 2

BodyLine(i) == LineWords(i + 1)

\* A key with its arguments: one for data_dir and listen, one or more
\* origins for origins.
Proper(w) ==
    \/ w[1] \in {"data_dir", "listen"} /\ Len(w) = 2
    \/ w[1] = "origins" /\ Len(w) >= 2

RECURSIVE OriginsUpTo(_)
OriginsUpTo(i) ==
    IF i = 0 THEN << >>
    ELSE OriginsUpTo(i - 1)
         \o (IF BodyLine(i)[1] = "origins" THEN Tail(BodyLine(i)) ELSE << >>)

RECURSIVE LastArg(_, _)
LastArg(key, i) ==
    IF i = 0 THEN ""
    ELSE IF BodyLine(i)[1] = key THEN BodyLine(i)[2] ELSE LastArg(key, i - 1)

\* C7 (as claimed): a block that uses only data_dir, listen and origins,
\* each with its arguments, parses without error to the configuration
\* whose Origins are the origin arguments in order (over repeated origins
\* lines), whose Listen and DataDir are the arguments of listen and
\* data_dir; a block whose first improper line starts with another key
\* fails with an error naming that key.
C7_ParsesDocumentedBlock ==
    parsePc \in {"done", "error"} =>
        /\ (\A i \in 1..NumLines : Proper(BodyLine(i))) =>
              /\ parsePc = "done"
              /\ app.Origins = OriginsUpTo(NumLines)
              /\ app.Listen = LastArg("listen", NumLines)
              /\ app.DataDir = LastArg("data_dir", NumLines)
        /\ \A i \in 1..NumLines :
              (/\ BodyLine(i)[1] \notin Keys
               /\ \A j \in 1..(i - 1) : Proper(BodyLine(j)))
                 => (parsePc = "error" /\ parseErr = <<"unrecognized", BodyLine(i)[1]>>)

====
